---- MODULE Spec2Model ----
(***************************************************************************)
(* Ring-buffer queue of eapache/queue: the Queue type (queue.go, v2, and   *)
(* the panicking variant with Pop/Clear/Capacity) and the ThreadSafeQueue  *)
(* wrapper.                                                                *)
(***************************************************************************)
EXTENDS Integers, Sequences, FiniteSets, TLC

(***************************************************************************)
(* Program constants and model bounds                                      *)
(***************************************************************************)
\* const minQueueLen = 16
minQueueLen == 16

\* Number of Add calls explored in one behaviour of Spec (the whole API) and
\* of the concurrent specifications.
MaxAdds == 18

\* Number of Add calls explored in one behaviour of SpecNoClear: enough for
\* the buffer to grow twice and to shrink while its contents wrap.
MaxLongAdds == 33

\* Number of Add calls explored in one behaviour of SpecMu, where unlocked
\* reads interleave with every statement of Add and Remove.
MaxMuAdds == 3

\* Number of Clear calls explored in one behaviour.
MaxClears == 1

\* nil: the empty marker of a storage slot.  Added elements are 1, 2, 3, ...
Nil == 0

ErrNone == "nil"
ErrQueueEmpty == "queue is empty"
ErrIndexOutOfRange == "index is out of range"

Min(a, b) == IF a < b THEN a ELSE b

(***************************************************************************)
(* Go primitives used by the queue                                         *)
(***************************************************************************)
\* x & y on non-negative ints, bit by bit.
RECURSIVE BitAnd(_, _)
BitAnd(x, y) ==
    IF x = 0 \/ y = 0 THEN 0
    ELSE (IF x % 2 = 1 /\ y % 2 = 1 THEN 1 ELSE 0) + 2 * BitAnd(x \div 2, y \div 2)

\* make([]interface{}, n): n nil slots.  Slot i of Go is element i+1 here.
Make(n) == [i \in 1..n |-> Nil]

\* b[i] for a 0-based Go index.
At(b, i) == b[i + 1]

\* b[lo:hi]
Slice(b, lo, hi) == SubSeq(b, lo + 1, hi)

\* copy(dst[off:], src); the number of elements copied is Min(Len(dst)-off, Len(src)).
CopyAt(dst, off, src) ==
    [i \in 1..Len(dst) |->
        IF i > off /\ i - off <= Len(src) THEN src[i - off] ELSE dst[i]]

(***************************************************************************)
(* State                                                                   *)
(***************************************************************************)
VARIABLES
    buf,      \* Queue.buf
    head,     \* Queue.head
    tail,     \* Queue.tail
    count,    \* Queue.count
    res,      \* what the last completed call returned: [op, arg, ret, err, ok]
    model,    \* ghost: the live elements, oldest first
    added,    \* ghost: number of Add calls so far
    removed,  \* ghost: number of successful Remove/Pop calls so far
    cleared,  \* ghost: number of elements dropped by Clear so far
    clears,   \* ghost: number of Clear calls so far
    lock,     \* ThreadSafeQueue.lock: the actor holding it, or Free
    mu,       \* Queue.mu (queue.go): the actor holding it, or Free
    pc,       \* per actor: the statement it is about to execute
    loc       \* per actor: the call's name, argument and local variables

qvars == <<buf, head, tail, count>>
ghost == <<model, added, removed, cleared, clears>>
conc == <<lock, mu, pc, loc>>
vars == <<buf, head, tail, count, res, model, added, removed, cleared, clears,
          lock, mu, pc, loc>>

\* The queue as one value.
Q == [buf |-> buf, head |-> head, tail |-> tail, count |-> count]

SetQ(q) ==
    /\ buf' = q.buf
    /\ head' = q.head
    /\ tail' = q.tail
    /\ count' = q.count

Result(op, arg, ret, err, ok) ==
    [op |-> op, arg |-> arg, ret |-> ret, err |-> err, ok |-> ok]

(***************************************************************************)
(* Queue: the methods as functions of the queue value                      *)
(***************************************************************************)
\* New()
New == [buf |-> Make(minQueueLen), head |-> 0, tail |-> 0, count |-> 0]

\* Length()
Length(q) == q.count

\* Capacity()
Capacity(q) == Len(q.buf)

\* resize() without the second copy: the part of a wrapped range that lies at
\* the front of the old buffer is lost.
resize_NoWrap(q) ==
    LET newBuf == Make(q.count * 2)
        filled == CopyAt(newBuf, 0, Slice(q.buf, q.head, Len(q.buf)))
    IN  [q EXCEPT !.head = 0, !.tail = q.count, !.buf = filled]

\* resize() that copies the front of a wrapped range before its back.
resize_FrontFirst(q) ==
    LET newBuf == Make(q.count * 2)
        filled ==
            IF q.tail > q.head
            THEN CopyAt(newBuf, 0, Slice(q.buf, q.head, q.tail))
            ELSE CopyAt(CopyAt(newBuf, 0, Slice(q.buf, 0, q.tail)),
                        q.tail, Slice(q.buf, q.head, Len(q.buf)))
    IN  [q EXCEPT !.head = 0, !.tail = q.count, !.buf = filled]

\* resize(): a buffer of twice the current contents, contents moved to its
\* front in logical order.
resize(q) ==
    LET newBuf == Make(q.count * 2)
        filled ==
            IF q.tail > q.head
            THEN CopyAt(newBuf, 0, Slice(q.buf, q.head, q.tail))
            ELSE LET n == Min(Len(newBuf), Len(q.buf) - q.head)
                 IN  CopyAt(CopyAt(newBuf, 0, Slice(q.buf, q.head, Len(q.buf))),
                            n, Slice(q.buf, 0, q.tail))
    IN  [q EXCEPT !.head = 0, !.tail = q.count, !.buf = filled]

\* Add that never grows a full buffer.
AddGrow_Never(q) == q

\* Add that advances the tail without wrapping it.
AddAdvance_NoMask(q) == [q EXCEPT !.tail = q.tail + 1]

\* Add, statement by statement.
AddGrow(q) == IF q.count = Len(q.buf) THEN resize(q) ELSE q
AddStore(q, elem) == [q EXCEPT !.buf[q.tail + 1] = elem]
AddAdvance(q) == [q EXCEPT !.tail = BitAnd(q.tail + 1, Len(q.buf) - 1)]
AddCount(q) == [q EXCEPT !.count = q.count + 1]

\* Add(elem)
Add(q, elem) == AddCount(AddAdvance(AddStore(AddGrow(q), elem)))

\* Peek() with the emptiness test off by one.
Peek_OffByOne(q) ==
    IF q.count < 0
    THEN [ret |-> Nil, err |-> ErrQueueEmpty]
    ELSE [ret |-> At(q.buf, q.head), err |-> ErrNone]

\* Peek()
Peek(q) ==
    IF q.count <= 0
    THEN [ret |-> Nil, err |-> ErrQueueEmpty]
    ELSE [ret |-> At(q.buf, q.head), err |-> ErrNone]

\* Get(i) that forgets the head offset.
Get_NoHead(q, i) ==
    LET j == IF i < 0 THEN i + q.count ELSE i
    IN  IF j < 0 \/ j >= q.count
        THEN [ret |-> Nil, err |-> ErrIndexOutOfRange]
        ELSE [ret |-> At(q.buf, BitAnd(j, Len(q.buf) - 1)), err |-> ErrNone]

\* Get(i) that rejects every negative index.
Get_NoNegative(q, i) ==
    IF i < 0 \/ i >= q.count
    THEN [ret |-> Nil, err |-> ErrIndexOutOfRange]
    ELSE [ret |-> At(q.buf, BitAnd(q.head + i, Len(q.buf) - 1)), err |-> ErrNone]

\* Get(i) that wraps a negative index around the queue instead of adding
\* the length once.
Get_WrapNegative(q, i) ==
    LET j == IF i < 0 /\ q.count > 0 THEN i % q.count ELSE i
    IN  IF j < 0 \/ j >= q.count
        THEN [ret |-> Nil, err |-> ErrIndexOutOfRange]
        ELSE [ret |-> At(q.buf, BitAnd(q.head + j, Len(q.buf) - 1)), err |-> ErrNone]

\* Get(i)
Get(q, i) ==
    LET j == IF i < 0 THEN i + q.count ELSE i
    IN  IF j < 0 \/ j >= q.count
        THEN [ret |-> Nil, err |-> ErrIndexOutOfRange]
        ELSE [ret |-> At(q.buf, BitAnd(q.head + j, Len(q.buf) - 1)), err |-> ErrNone]

\* Remove that forgets to decrement count.
RemoveCount_Skip(q) == q

\* Remove that shrinks at one-quarter occupancy whatever the capacity.
RemoveShrink_NoFloor(q) ==
    IF q.count * 4 = Len(q.buf) THEN resize(q) ELSE q

\* Remove that shrinks at or below one-quarter occupancy.
RemoveShrink_AtOrBelow(q) ==
    IF Len(q.buf) > minQueueLen /\ q.count * 4 <= Len(q.buf) THEN resize(q) ELSE q

\* Remove that never gives storage back.
RemoveShrink_Never(q) == q

\* Remove that shrinks at one-eighth occupancy.
RemoveShrink_Eighth(q) ==
    IF Len(q.buf) > minQueueLen /\ q.count * 8 = Len(q.buf) THEN resize(q) ELSE q

\* Remove / Pop, statement by statement.
RemoveEmpty(q) == q.count <= 0
RemoveWipe(q) == [q EXCEPT !.buf[q.head + 1] = Nil]
RemoveAdvance(q) == [q EXCEPT !.head = BitAnd(q.head + 1, Len(q.buf) - 1)]
RemoveCount(q) == [q EXCEPT !.count = q.count - 1]
RemoveShrink(q) ==
    IF Len(q.buf) > minQueueLen /\ q.count * 4 = Len(q.buf) THEN resize(q) ELSE q

\* Remove() that tests for emptiness only after moving the head.
Remove_LateCheck(q) ==
    IF RemoveEmpty(q)
    THEN [q |-> RemoveAdvance(RemoveWipe(q)), ret |-> Nil, err |-> ErrQueueEmpty]
    ELSE [q |-> RemoveShrink(RemoveCount(RemoveAdvance(RemoveWipe(q)))),
          ret |-> At(q.buf, q.head), err |-> ErrNone]

\* Remove(): the queue afterwards, the element and the error.
Remove(q) ==
    IF RemoveEmpty(q)
    THEN [q |-> q, ret |-> Nil, err |-> ErrQueueEmpty]
    ELSE [q |-> RemoveShrink(RemoveCount(RemoveAdvance(RemoveWipe(q)))),
          ret |-> At(q.buf, q.head), err |-> ErrNone]

\* Pop() that never gives storage back.
Pop_NoShrink(q) ==
    IF q.count <= 0
    THEN [q |-> q, ret |-> Nil, ok |-> FALSE]
    ELSE [q |-> [q EXCEPT !.buf[q.head + 1] = Nil,
                          !.head = BitAnd(q.head + 1, Len(q.buf) - 1),
                          !.count = q.count - 1],
          ret |-> q.buf[q.head + 1], ok |-> TRUE]

\* Pop(): the queue afterwards, the element and the found flag.
Pop(q) ==
    IF q.count <= 0
    THEN [q |-> q, ret |-> Nil, ok |-> FALSE]
    ELSE LET ret == q.buf[q.head + 1]
             wiped == [q EXCEPT !.buf[q.head + 1] = Nil]
             moved == [wiped EXCEPT !.head = BitAnd(wiped.head + 1, Len(wiped.buf) - 1)]
             less == [moved EXCEPT !.count = moved.count - 1]
             after == IF Len(less.buf) > minQueueLen /\ less.count * 4 = Len(less.buf)
                      THEN resize(less)
                      ELSE less
         IN  [q |-> after, ret |-> ret, ok |-> TRUE]

\* Clear(): nil every slot from head up to tail, then reset the cursors.
RECURSIVE ClearWalk(_, _, _)
ClearWalk(b, h, t) ==
    IF h = t THEN b
    ELSE ClearWalk([b EXCEPT ![h + 1] = Nil], BitAnd(h + 1, Len(b) - 1), t)

\* Clear() that also gives the storage back.
Clear_Shrink(q) ==
    [q EXCEPT !.buf = Make(minQueueLen), !.head = 0, !.tail = 0, !.count = 0]

Clear(q) ==
    [q EXCEPT !.buf = ClearWalk(q.buf, q.head, q.tail),
              !.head = 0, !.tail = 0, !.count = 0]

(***************************************************************************)
(* Single-caller behaviour: each call runs to completion                   *)
(***************************************************************************)
Actors == {"a1", "a2"}
Free == "free"

\* A call in progress: its name and argument, its local ret and err, and
\* (ghost) the queue as it was when the call took its lock.
Call(op, arg, q0) == [op |-> op, arg |-> arg, ret |-> Nil, err |-> ErrNone, q0 |-> q0]
NoCall == Call("none", 0, New)

Init ==
    /\ buf = New.buf
    /\ head = New.head
    /\ tail = New.tail
    /\ count = New.count
    /\ res = Result("New", 0, Nil, ErrNone, TRUE)
    /\ model = <<>>
    /\ added = 0
    /\ removed = 0
    /\ cleared = 0
    /\ clears = 0
    /\ lock = Free
    /\ mu = Free
    /\ pc = [a \in Actors |-> "idle"]
    /\ loc = [a \in Actors |-> NoCall]

\* The indices Get is called with: the ends of the valid range from either
\* side, and the first invalid index on either side.
GetArgs == {0, count - 1, count, -1, 0 - count, 0 - (count + 1)}

\* The n-th call of Add adds n, as the tests do.
AddCall(limit) ==
    /\ added < limit
    /\ LET elem == added + 1
       IN  /\ SetQ(Add(Q, elem))
           /\ res' = Result("Add", elem, Nil, ErrNone, TRUE)
           /\ model' = Append(model, elem)
           /\ added' = added + 1
    /\ UNCHANGED <<removed, cleared, clears, conc>>

CallAdd == AddCall(MaxAdds)

CallAddLong == AddCall(MaxLongAdds)

CallRemove ==
    LET r == Remove(Q)
    IN  /\ SetQ(r.q)
        /\ res' = Result("Remove", 0, r.ret, r.err, r.err = ErrNone)
        /\ IF r.err = ErrNone
           THEN model' = Tail(model) /\ removed' = removed + 1
           ELSE UNCHANGED <<model, removed>>
        /\ UNCHANGED <<added, cleared, clears, conc>>

CallPop ==
    LET r == Pop(Q)
    IN  /\ SetQ(r.q)
        /\ res' = Result("Pop", 0, r.ret, ErrNone, r.ok)
        /\ IF r.ok
           THEN model' = Tail(model) /\ removed' = removed + 1
           ELSE UNCHANGED <<model, removed>>
        /\ UNCHANGED <<added, cleared, clears, conc>>

CallPeek ==
    LET r == Peek(Q)
    IN  /\ res' = Result("Peek", 0, r.ret, r.err, r.err = ErrNone)
        /\ UNCHANGED <<qvars, ghost, conc>>

CallGet ==
    \E i \in GetArgs :
        LET r == Get(Q, i)
        IN  /\ res' = Result("Get", i, r.ret, r.err, r.err = ErrNone)
            /\ UNCHANGED <<qvars, ghost, conc>>

CallLength ==
    /\ res' = Result("Length", 0, Length(Q), ErrNone, TRUE)
    /\ UNCHANGED <<qvars, ghost, conc>>

CallCapacity ==
    /\ res' = Result("Capacity", 0, Capacity(Q), ErrNone, TRUE)
    /\ UNCHANGED <<qvars, ghost, conc>>

CallClear ==
    /\ clears < MaxClears
    /\ SetQ(Clear(Q))
    /\ res' = Result("Clear", 0, Nil, ErrNone, TRUE)
    /\ model' = <<>>
    /\ cleared' = cleared + Len(model)
    /\ clears' = clears + 1
    /\ UNCHANGED <<added, removed, conc>>

Next ==
    \/ CallAdd
    \/ CallRemove
    \/ CallPop
    \/ CallPeek
    \/ CallGet
    \/ CallLength
    \/ CallCapacity
    \/ CallClear

Spec == Init /\ [][Next]_vars

\* Add, Remove and Pop only (no Clear), over longer runs.
NextNoClear ==
    \/ CallAddLong
    \/ CallRemove
    \/ CallPop
    \/ CallPeek
    \/ CallGet
    \/ CallLength
    \/ CallCapacity

SpecNoClear == Init /\ [][NextNoClear]_vars

(***************************************************************************)
(* Concurrent callers: a call is a sequence of steps, one per statement.   *)
(* res is left alone; a caller's result is in loc until it returns.        *)
(***************************************************************************)
\* The caller moves to statement p.
Goto(a, p) == pc' = [pc EXCEPT ![a] = p]

\* Add: if q.count == len(q.buf) { q.resize() }
StepAddGrow(a) ==
    /\ pc[a] = "add.grow"
    /\ SetQ(AddGrow(Q))
    /\ Goto(a, "add.store")
    /\ UNCHANGED <<res, ghost, lock, mu, loc>>

\* Add: q.buf[q.tail] = elem
StepAddStore(a) ==
    /\ pc[a] = "add.store"
    /\ SetQ(AddStore(Q, loc[a].arg))
    /\ Goto(a, "add.advance")
    /\ UNCHANGED <<res, ghost, lock, mu, loc>>

\* Add: q.tail = (q.tail + 1) & (len(q.buf) - 1)
StepAddAdvance(a) ==
    /\ pc[a] = "add.advance"
    /\ SetQ(AddAdvance(Q))
    /\ Goto(a, "add.count")
    /\ UNCHANGED <<res, ghost, lock, mu, loc>>

\* Add: q.count++
StepAddCount(a) ==
    /\ pc[a] = "add.count"
    /\ SetQ(AddCount(Q))
    /\ Goto(a, "return")
    /\ UNCHANGED <<res, ghost, lock, mu, loc>>

\* Remove/Pop: if q.count <= 0 { return ... }
StepRemoveCheck(a) ==
    /\ pc[a] = "rm.check"
    /\ IF RemoveEmpty(Q)
       THEN /\ loc' = [loc EXCEPT ![a].err = ErrQueueEmpty]
            /\ Goto(a, "return")
       ELSE /\ loc' = loc
            /\ Goto(a, "rm.read")
    /\ UNCHANGED <<qvars, res, ghost, lock, mu>>

\* Remove/Pop: ret := q.buf[q.head]
StepRemoveRead(a) ==
    /\ pc[a] = "rm.read"
    /\ loc' = [loc EXCEPT ![a].ret = At(buf, head)]
    /\ Goto(a, "rm.wipe")
    /\ UNCHANGED <<qvars, res, ghost, lock, mu>>

\* Remove/Pop: q.buf[q.head] = nil
StepRemoveWipe(a) ==
    /\ pc[a] = "rm.wipe"
    /\ SetQ(RemoveWipe(Q))
    /\ Goto(a, "rm.advance")
    /\ UNCHANGED <<res, ghost, lock, mu, loc>>

\* Remove/Pop: q.head = (q.head + 1) & (len(q.buf) - 1)
StepRemoveAdvance(a) ==
    /\ pc[a] = "rm.advance"
    /\ SetQ(RemoveAdvance(Q))
    /\ Goto(a, "rm.count")
    /\ UNCHANGED <<res, ghost, lock, mu, loc>>

\* Remove/Pop: q.count--
StepRemoveCount(a) ==
    /\ pc[a] = "rm.count"
    /\ SetQ(RemoveCount(Q))
    /\ Goto(a, "rm.shrink")
    /\ UNCHANGED <<res, ghost, lock, mu, loc>>

\* Remove/Pop: if len(q.buf) > minQueueLen && (q.count<<2) == len(q.buf) { q.resize() }
StepRemoveShrink(a) ==
    /\ pc[a] = "rm.shrink"
    /\ SetQ(RemoveShrink(Q))
    /\ Goto(a, "return")
    /\ UNCHANGED <<res, ghost, lock, mu, loc>>

\* Peek: the body
StepPeek(a) ==
    /\ pc[a] = "peek"
    /\ loc' = [loc EXCEPT ![a].ret = Peek(Q).ret, ![a].err = Peek(Q).err]
    /\ Goto(a, "return")
    /\ UNCHANGED <<qvars, res, ghost, lock, mu>>

\* Get: the body
StepGet(a) ==
    /\ pc[a] = "get"
    /\ loc' = [loc EXCEPT ![a].ret = Get(Q, loc[a].arg).ret,
                          ![a].err = Get(Q, loc[a].arg).err]
    /\ Goto(a, "return")
    /\ UNCHANGED <<qvars, res, ghost, lock, mu>>

\* Length: the body
StepLength(a) ==
    /\ pc[a] = "length"
    /\ loc' = [loc EXCEPT ![a].ret = Length(Q)]
    /\ Goto(a, "return")
    /\ UNCHANGED <<qvars, res, ghost, lock, mu>>

Step(a) ==
    \/ StepAddGrow(a)
    \/ StepAddStore(a)
    \/ StepAddAdvance(a)
    \/ StepAddCount(a)
    \/ StepRemoveCheck(a)
    \/ StepRemoveRead(a)
    \/ StepRemoveWipe(a)
    \/ StepRemoveAdvance(a)
    \/ StepRemoveCount(a)
    \/ StepRemoveShrink(a)
    \/ StepPeek(a)
    \/ StepGet(a)
    \/ StepLength(a)

\* Ghost bookkeeping when a call returns.
Account(a) ==
    /\ model' =
          IF loc[a].op = "Add" THEN Append(model, loc[a].arg)
          ELSE IF loc[a].op \in {"Remove", "Pop"} /\ loc[a].err = ErrNone /\ model # <<>>
               THEN Tail(model)
               ELSE model
    /\ removed' =
          IF loc[a].op \in {"Remove", "Pop"} /\ loc[a].err = ErrNone
          THEN removed + 1 ELSE removed
    /\ UNCHANGED <<cleared, clears>>

(***************************************************************************)
(* ThreadSafeQueue: every method locks t.lock, delegates, and unlocks on   *)
(* return (defer).                                                         *)
(***************************************************************************)
\* t.lock.Lock() by an idle caller, then the delegate call starts at p.
TSEnter(a, op, arg, p) ==
    /\ pc[a] = "idle"
    /\ lock = Free
    /\ lock' = a
    /\ loc' = [loc EXCEPT ![a] = Call(op, arg, Q)]
    /\ Goto(a, p)
    /\ UNCHANGED <<qvars, res, model, removed, cleared, clears, mu>>

\* ThreadSafeQueue.Add without t.lock.Lock().
TSAdd_NoLock(a) ==
    /\ added < MaxAdds
    /\ added' = added + 1
    /\ pc[a] = "idle"
    /\ loc' = [loc EXCEPT ![a] = Call("Add", added + 1, Q)]
    /\ Goto(a, "add.grow")
    /\ UNCHANGED <<qvars, res, model, removed, cleared, clears, mu, lock>>

TSAdd(a) ==
    /\ added < MaxAdds
    /\ added' = added + 1
    /\ TSEnter(a, "Add", added + 1, "add.grow")

\* ThreadSafeQueue.Remove without t.lock.Lock().
TSRemove_NoLock(a) ==
    /\ added' = added
    /\ pc[a] = "idle"
    /\ loc' = [loc EXCEPT ![a] = Call("Remove", 0, Q)]
    /\ Goto(a, "rm.check")
    /\ UNCHANGED <<qvars, res, model, removed, cleared, clears, mu, lock>>

TSRemove(a) ==
    /\ added' = added
    /\ TSEnter(a, "Remove", 0, "rm.check")

TSPop(a) ==
    /\ added' = added
    /\ TSEnter(a, "Pop", 0, "rm.check")

TSPeek(a) ==
    /\ added' = added
    /\ TSEnter(a, "Peek", 0, "peek")

TSGet(a) ==
    /\ added' = added
    /\ \E i \in GetArgs : TSEnter(a, "Get", i, "get")

TSLength(a) ==
    /\ added' = added
    /\ TSEnter(a, "Length", 0, "length")

\* return that skips the deferred t.lock.Unlock() when the delegate failed.
TSReturn_NoUnlock(a) ==
    /\ pc[a] = "return"
    /\ lock' = IF loc[a].err = ErrNone THEN Free ELSE lock
    /\ Account(a)
    /\ loc' = [loc EXCEPT ![a] = NoCall]
    /\ Goto(a, "idle")
    /\ UNCHANGED <<qvars, res, added, mu>>

\* return, with the deferred t.lock.Unlock()
TSReturn(a) ==
    /\ pc[a] = "return"
    /\ lock' = Free
    /\ Account(a)
    /\ loc' = [loc EXCEPT ![a] = NoCall]
    /\ Goto(a, "idle")
    /\ UNCHANGED <<qvars, res, added, mu>>

NextTS ==
    \E a \in Actors :
        \/ TSAdd(a)
        \/ TSRemove(a)
        \/ TSPop(a)
        \/ TSPeek(a)
        \/ TSGet(a)
        \/ TSLength(a)
        \/ Step(a)
        \/ TSReturn(a)

SpecTS == Init /\ [][NextTS]_vars

(***************************************************************************)
(* ThreadSafeQueue with the wait for t.lock made visible: a caller that    *)
(* has invoked a method waits at "lock" until t.lock.Lock() returns.       *)
(***************************************************************************)
\* Number of Add calls explored in one behaviour of SpecTSFair.
MaxFairAdds == 2

\* The first statement of the delegate after t.lock.Lock().
FirstStatement(op) ==
    CASE op = "Add" -> "add.grow"
      [] op \in {"Remove", "Pop"} -> "rm.check"
      [] op = "Peek" -> "peek"
      [] op = "Get" -> "get"
      [] OTHER -> "length"

\* An idle caller invokes a method and reaches t.lock.Lock().
TSInvoke(a, op, arg) ==
    /\ pc[a] = "idle"
    /\ loc' = [loc EXCEPT ![a] = Call(op, arg, New)]
    /\ Goto(a, "lock")
    /\ UNCHANGED <<qvars, res, model, removed, cleared, clears, mu, lock>>

TSInvokeAdd(a) ==
    /\ added < MaxFairAdds
    /\ added' = added + 1
    /\ TSInvoke(a, "Add", added + 1)

TSInvokeRemove(a) ==
    /\ added' = added
    /\ TSInvoke(a, "Remove", 0)

TSInvokePop(a) ==
    /\ added' = added
    /\ TSInvoke(a, "Pop", 0)

TSInvokePeek(a) ==
    /\ added' = added
    /\ TSInvoke(a, "Peek", 0)

TSInvokeGet(a) ==
    /\ added' = added
    /\ \E i \in GetArgs : TSInvoke(a, "Get", i)

TSInvokeLength(a) ==
    /\ added' = added
    /\ TSInvoke(a, "Length", 0)

\* t.lock.Lock() returns: the lock was free and the caller now holds it.
TSAcquire(a) ==
    /\ pc[a] = "lock"
    /\ lock = Free
    /\ lock' = a
    /\ loc' = [loc EXCEPT ![a].q0 = Q]
    /\ Goto(a, FirstStatement(loc[a].op))
    /\ UNCHANGED <<qvars, res, ghost, mu>>

NextTSFair ==
    \E a \in Actors :
        \/ TSInvokeAdd(a)
        \/ TSInvokeRemove(a)
        \/ TSInvokePop(a)
        \/ TSInvokePeek(a)
        \/ TSInvokeGet(a)
        \/ TSInvokeLength(a)
        \/ TSAcquire(a)
        \/ Step(a)
        \/ TSReturn(a)

\* Scheduling: a running goroutine keeps running its statements (the Go
\* scheduler is preemptive), and a goroutine blocked in Lock() gets the mutex
\* if it is free again and again (sync.Mutex hands the lock to a waiter that
\* has been starved).
TSFairness ==
    \A a \in Actors :
        /\ WF_vars(Step(a))
        /\ WF_vars(TSReturn(a))
        /\ SF_vars(TSAcquire(a))

SpecTSFair == Init /\ [][NextTSFair]_vars /\ TSFairness

(***************************************************************************)
(* Queue of queue.go used by several callers directly: Add and Remove lock *)
(* q.mu; Peek, Get and Length take no lock.                                *)
(***************************************************************************)
\* q.mu.Lock() by an idle caller, then the body starts at p.
MuEnter(a, op, arg, p) ==
    /\ pc[a] = "idle"
    /\ mu = Free
    /\ mu' = a
    /\ loc' = [loc EXCEPT ![a] = Call(op, arg, Q)]
    /\ Goto(a, p)
    /\ UNCHANGED <<qvars, res, model, removed, cleared, clears, lock>>

\* A method that takes no lock: an idle caller starts its body at p.
NoLockEnter(a, op, arg, p) ==
    /\ pc[a] = "idle"
    /\ loc' = [loc EXCEPT ![a] = Call(op, arg, New)]
    /\ Goto(a, p)
    /\ UNCHANGED <<qvars, res, ghost, lock, mu>>

MuAdd(a) ==
    /\ added < MaxMuAdds
    /\ added' = added + 1
    /\ MuEnter(a, "Add", added + 1, "add.grow")

MuRemove(a) ==
    /\ added' = added
    /\ MuEnter(a, "Remove", 0, "rm.check")

MuPeek(a) == NoLockEnter(a, "Peek", 0, "peek")

MuGet(a) == \E i \in GetArgs : NoLockEnter(a, "Get", i, "get")

MuLength(a) == NoLockEnter(a, "Length", 0, "length")

\* return; Add and Remove run the deferred q.mu.Unlock()
MuReturn(a) ==
    /\ pc[a] = "return"
    /\ mu' = IF loc[a].op \in {"Add", "Remove"} THEN Free ELSE mu
    /\ Account(a)
    /\ loc' = [loc EXCEPT ![a] = NoCall]
    /\ Goto(a, "idle")
    /\ UNCHANGED <<qvars, res, added, lock>>

NextMu ==
    \E a \in Actors :
        \/ MuAdd(a)
        \/ MuRemove(a)
        \/ MuPeek(a)
        \/ MuGet(a)
        \/ MuLength(a)
        \/ Step(a)
        \/ MuReturn(a)

SpecMu == Init /\ [][NextMu]_vars

(***************************************************************************)
(* Properties of the single-caller behaviours                              *)
(***************************************************************************)
\* The queue after the step.
QNext == [buf |-> buf', head |-> head', tail |-> tail', count |-> count']

IsPowerOfTwo(n) == \E k \in 0..16 : n = 2 ^ k

\* A step in which Remove or Pop returned an element.
RemovedStep == res'.op \in {"Remove", "Pop"} /\ res'.ok /\ removed' = removed + 1

\* A step that is a call of Add.
AddStep == res'.op = "Add" /\ added' = added + 1

\* C1: FIFO ordering.  Without Clear, the k-th successful Remove/Pop returns
\* the k-th added value (the n-th Add adds n), which is the oldest live
\* element and the value Peek returned just before the call.
C1_FIFO ==
    [][RemovedStep =>
          /\ res'.ret = removed'
          /\ res'.ret = Head(model)
          /\ Peek(Q) = [ret |-> res'.ret, err |-> ErrNone]]_vars

C1_Witness ==
    /\ res.op = "Remove" /\ res.ok
    /\ added = 33 /\ removed = 17
    /\ Len(buf) = 32 /\ tail < head

\* C2: with the live elements e0..e(n-1) in insertion order, Peek returns e0
\* and Get(i) returns e(i) for every 0 <= i < n, in every layout.
C2_Positional ==
    /\ count = Len(model)
    /\ \A i \in 0..(Len(model) - 1) :
          Get(Q, i) = [ret |-> model[i + 1], err |-> ErrNone]
    /\ Len(model) > 0 => Peek(Q) = [ret |-> model[1], err |-> ErrNone]
    /\ (res.op = "Get" /\ res.arg >= 0 /\ res.arg < Len(model)) =>
          res.ok /\ res.ret = model[res.arg + 1]
    /\ (res.op = "Peek" /\ Len(model) > 0) => res.ok /\ res.ret = model[1]

C2_Witness ==
    /\ res.op = "Get" /\ res.ok /\ res.arg = count - 1
    /\ count > 1 /\ tail < head /\ Len(buf) = 32

\* C3 as claimed: Length() equals the number of Add calls minus the number
\* of successful Remove/Pop calls, Clear calls included in the sequence.
C3_Original == Length(Q) = added - removed

\* C3 amended: Length() equals the number of Add calls, minus the number of
\* successful Remove/Pop calls, minus the number of elements dropped by Clear.
C3_Length ==
    /\ Length(Q) = added - removed - cleared
    /\ res.op = "Length" => res.ret = added - removed - cleared

C3_Witness ==
    /\ res.op = "Length" /\ res.ret > 0
    /\ clears = 1 /\ cleared > 0 /\ removed > 0

\* C4: the capacity is a power of two, at least 16, and 0 <= count <=
\* capacity; a step that lowers the capacity leaves it at least 16 and at
\* least count.
C4_CapacityInv ==
    /\ IsPowerOfTwo(Capacity(Q))
    /\ Capacity(Q) >= minQueueLen
    /\ 0 <= count /\ count <= Capacity(Q)
    /\ res.op = "Capacity" => res.ret = Len(buf)

C4_Witness ==
    /\ res.op \in {"Remove", "Pop"} /\ res.ok
    /\ added >= 17 /\ count = 8 /\ Len(buf) = 16 /\ head = 0 /\ tail = 8

\* The index Get looks up for i when n elements are queued.
Normalized(i, n) == IF i < 0 THEN i + n ELSE i

C7_Add ==
    [][AddStep =>
          /\ count' = count + 1
          /\ Get(QNext, -1) = [ret |-> res'.arg, err |-> ErrNone]
          /\ \A i \in 0..(count - 1) : Get(QNext, i) = Get(Q, i)
          /\ count = Len(buf) => Len(buf') = 2 * Len(buf)]_vars

C7_Witness ==
    /\ res.op = "Add" /\ res.arg = 18
    /\ Len(buf) = 32 /\ count = 17 /\ head = 0 /\ tail = 17

(***************************************************************************)
(* Properties of the concurrent behaviours                                 *)
(***************************************************************************)
\* The elements in the slots head .. head+count-1 (circularly), oldest first.
Live(q) ==
    [i \in 1..q.count |-> At(q.buf, BitAnd(q.head + i - 1, Len(q.buf) - 1))]

\* What a call returns when it runs alone on queue q: the queue afterwards,
\* the element and the error.
Serial(l, q) ==
    CASE l.op = "Add"    -> [q |-> Add(q, l.arg), ret |-> Nil, err |-> ErrNone]
      [] l.op = "Remove" -> Remove(q)
      [] l.op = "Pop"    -> [q |-> Pop(q).q, ret |-> Pop(q).ret,
                             err |-> IF Pop(q).ok THEN ErrNone ELSE ErrQueueEmpty]
      [] l.op = "Peek"   -> [q |-> q, ret |-> Peek(q).ret, err |-> Peek(q).err]
      [] l.op = "Get"    -> [q |-> q, ret |-> Get(q, l.arg).ret, err |-> Get(q, l.arg).err]
      [] l.op = "Length" -> [q |-> q, ret |-> Length(q), err |-> ErrNone]
      [] OTHER           -> [q |-> q, ret |-> Nil, err |-> ErrNone]

\* C8: ThreadSafeQueue under concurrent callers.  Whenever no call is in
\* progress, 0 <= count <= capacity, the capacity is a power of two >= 16,
\* count is (tail - head) modulo the capacity, and the queue holds exactly
\* the added values not yet removed, in order; every successful Remove/Pop
\* takes out the next value in order, so none is lost or taken twice.
C8_TSSafe ==
    /\ (\A a \in Actors : pc[a] = "idle") =>
          /\ 0 <= count /\ count <= Len(buf)
          /\ IsPowerOfTwo(Len(buf)) /\ Len(buf) >= minQueueLen
          /\ count % Len(buf) = (tail - head) % Len(buf)
          /\ Live(Q) = [i \in 1..(added - removed) |-> removed + i]
          /\ Live(Q) = model
    /\ \A a \in Actors :
          (pc[a] = "return" /\ loc[a].op \in {"Remove", "Pop"} /\ loc[a].err = ErrNone) =>
              loc[a].ret = removed + 1

C8_Witness ==
    /\ pc["a2"] = "return" /\ loc["a2"].op = "Pop" /\ loc["a2"].ret = 9
    /\ loc["a2"].err = ErrNone /\ added = 17 /\ Len(buf) = 16
    /\ lock = "a2" /\ pc["a1"] = "idle"

\* C9: at most one caller is inside the wrapped queue, and it holds the
\* lock; every call leaves the queue and returns what the same call would,
\* run alone on the queue as it was when the call took the lock.
C9_Mutex ==
    /\ Cardinality({a \in Actors : pc[a] # "idle"}) <= 1
    /\ \A a \in Actors : pc[a] # "idle" => lock = a
    /\ \A a \in Actors :
          pc[a] = "return" =>
              /\ Q = Serial(loc[a], loc[a].q0).q
              /\ loc[a].ret = Serial(loc[a], loc[a].q0).ret
              /\ loc[a].err = Serial(loc[a], loc[a].q0).err

C9_Witness ==
    /\ pc["a1"] = "return" /\ loc["a1"].op = "Add" /\ loc["a1"].arg = 18
    /\ Len(buf) = 32 /\ Len(loc["a1"].q0.buf) = 16 /\ loc["a1"].q0.head = 1
    /\ pc["a2"] = "idle"

\* The queues a read may be serialized against: the queue as it is when no
\* Add/Remove is in progress, else the queue before or after that call.
SerialPoints ==
    IF mu = Free THEN {Q}
    ELSE {loc[mu].q0, Serial(loc[mu], loc[mu].q0).q}

\* C10: on the queue that carries its own mutex, a Peek, Get or Length that
\* runs while another caller is in Add or Remove returns what it would
\* return before or after that whole call (so never an emptied slot).
C10_ReadsSerialized ==
    [][\A a \in Actors :
          (pc[a] \in {"peek", "get", "length"} /\ pc'[a] = "return") =>
              \E q \in SerialPoints :
                  /\ loc'[a].ret = Serial(loc[a], q).ret
                  /\ loc'[a].err = Serial(loc[a], q).err]_vars

(***************************************************************************)
(* Frame conditions, Clear, resizing                                       *)
(***************************************************************************)
\* A step that is a read, or a Remove/Pop that found the queue empty.
ReadOrFailedStep ==
    \/ res'.op \in {"Peek", "Get", "Length"}
    \/ res'.op \in {"Remove", "Pop"} /\ ~res'.ok

\* C11: Peek, Get and Length, and a Remove or Pop on an empty queue, leave
\* storage, head, tail and count unchanged, so the same call repeated at once
\* returns the same result.
C11_Frame ==
    [][ReadOrFailedStep =>
          /\ QNext = Q
          /\ res'.op = "Peek" =>
                Peek(QNext) = [ret |-> res'.ret, err |-> res'.err]
          /\ res'.op = "Get" =>
                Get(QNext, res'.arg) = [ret |-> res'.ret, err |-> res'.err]
          /\ res'.op = "Length" => Length(QNext) = res'.ret
          /\ res'.op = "Remove" =>
                Remove(QNext) = [q |-> Q, ret |-> res'.ret, err |-> res'.err]
          /\ res'.op = "Pop" =>
                Pop(QNext) = [q |-> Q, ret |-> res'.ret, ok |-> FALSE]]_vars

C11_Witness ==
    /\ res.op = "Remove" /\ ~res.ok /\ res.err = ErrQueueEmpty
    /\ clears = 1 /\ Len(buf) = 32 /\ cleared = 17

\* A step that is a call of Clear.
ClearStep == res'.op = "Clear" /\ clears' = clears + 1

\* C12: after Clear() the length is 0 and the capacity is what it was; Peek,
\* Remove and Pop then fail as on an empty queue; elements added afterwards
\* come out in the order they were added.
C12_Clear ==
    [][/\ ClearStep =>
             /\ Length(QNext) = 0
             /\ Capacity(QNext) = Capacity(Q)
             /\ Peek(QNext) = [ret |-> Nil, err |-> ErrQueueEmpty]
             /\ Remove(QNext) = [q |-> QNext, ret |-> Nil, err |-> ErrQueueEmpty]
             /\ Pop(QNext) = [q |-> QNext, ret |-> Nil, ok |-> FALSE]
       /\ (RemovedStep /\ clears >= 1) =>
             /\ res'.ret = Head(model)
             /\ res'.ret = removed' + cleared
             /\ res'.ret > cleared]_vars

C12_Witness ==
    /\ res.op = "Pop" /\ res.ok /\ res.ret = 18
    /\ clears = 1 /\ cleared = 17 /\ Len(buf) = 32 /\ count = 0

\* C13: the capacity changes only in Add on a full buffer, to exactly twice
\* the capacity, and in Remove/Pop when the capacity is above 16 and four
\* times the count left equals the capacity, to exactly half of it; in both
\* cases it does change.  The first 16 Adds on a new queue leave the capacity
\* at 16 and the 17th doubles it.
C13_ResizeTriggers ==
    [][/\ Len(buf') # Len(buf) =>
             \/ AddStep /\ count = Len(buf) /\ Len(buf') = 2 * Len(buf)
             \/ /\ RemovedStep
                /\ Len(buf) > minQueueLen
                /\ count' * 4 = Len(buf)
                /\ Len(buf') * 2 = Len(buf)
       /\ (AddStep /\ count = Len(buf)) => Len(buf') = 2 * Len(buf)
       /\ (RemovedStep /\ Len(buf) > minQueueLen /\ count' * 4 = Len(buf)) =>
             Len(buf') * 2 = Len(buf)
       /\ (AddStep /\ added < minQueueLen /\ removed = 0 /\ clears = 0) =>
             Len(buf') = minQueueLen
       /\ (AddStep /\ added = minQueueLen /\ removed = 0 /\ clears = 0) =>
             Len(buf) = minQueueLen /\ Len(buf') = 2 * minQueueLen]_vars

C13_Witness ==
    /\ res.op = "Pop" /\ res.ok /\ res.ret = 9
    /\ added = 17 /\ removed = 9 /\ Len(buf) = 16 /\ count = 8

(***************************************************************************)
(* ThreadSafeQueue: lock release and progress                              *)
(***************************************************************************)
\* C14: Every method of ThreadSafeQueue releases the lock on every exit path,
\* failed delegates included, so the lock is free whenever no caller is past
\* Lock(); the caller that holds the lock is always inside its delegate (it
\* is never waiting in Lock() again while holding it); and under fair
\* scheduling every caller waiting in Lock() eventually returns.
C14_Progress ==
    /\ []((\A a \in Actors : pc[a] \in {"idle", "lock"}) => lock = Free)
    /\ [](\A a \in Actors : lock = a <=> pc[a] \notin {"idle", "lock"})
    /\ \A a \in Actors : (pc[a] = "lock") ~> (pc[a] = "idle")

C14_Witness ==
    /\ pc["a1"] = "lock"
    /\ lock = "a2"
    /\ pc["a2"] = "return"
    /\ loc["a2"].op = "Get"
    /\ loc["a2"].err = ErrIndexOutOfRange

C16_PopRemove ==
    [][LET popped == Pop(Q)
           removed1 == Remove(Q)
       IN  /\ popped.q = removed1.q
           /\ popped.ret = removed1.ret
           /\ popped.ok <=> removed1.err = ErrNone
           /\ res'.op = "Pop" =>
                 IF count > 0
                 THEN /\ res'.ok /\ res'.ret = Head(model)
                      /\ QNext = removed1.q
                      /\ Len(buf') # Len(buf) <=>
                            (Len(buf) > minQueueLen /\ (count - 1) * 4 = Len(buf))
                 ELSE /\ ~res'.ok /\ res'.ret = Nil
                      /\ QNext = Q]_vars

C16_Witness ==
    /\ res.op = "Pop" /\ res.ok /\ res.ret = 17
    /\ added = 33 /\ removed = 17
    /\ Len(buf) = 32 /\ head = 0 /\ tail = 16

(***************************************************************************)
(* Cursors and slots                                                       *)
(***************************************************************************)
\* C17: Cursor invariant.  After every Add/Remove/Pop/Clear, head and tail
\* are indices of the storage, count is between 0 and the capacity and equals
\* tail - head modulo the capacity, and head = tail exactly when the queue is
\* empty or full.
C17_Cursors ==
    /\ 0 <= head /\ head < Len(buf)
    /\ 0 <= tail /\ tail < Len(buf)
    /\ 0 <= count /\ count <= Len(buf)
    /\ count % Len(buf) = (tail - head) % Len(buf)
    /\ count < Len(buf) => count = (tail - head) % Len(buf)
    /\ head = tail <=> count \in {0, Len(buf)}

C17_Witness ==
    /\ res.op = "Add"
    /\ head = tail /\ head > 0
    /\ count = Len(buf) /\ clears = 1

\* The slots of the circular range [head, head + count).
Occupied(q) ==
    {BitAnd(q.head + i, Len(q.buf) - 1) : i \in 0..(q.count - 1)}

\* C18: Slot occupancy.  After every operation each slot of the range
\* [head, head + count) holds a value and every other slot holds nil.
C18_Occupancy ==
    \A i \in 0..(Len(buf) - 1) :
        At(buf, i) # Nil <=> i \in Occupied(Q)

\* C20: after Clear() every slot of the storage holds nil, and head, tail
\* and count are 0.
C20_ClearWipes ==
    res.op = "Clear" =>
        /\ \A i \in 0..(Len(buf) - 1) : At(buf, i) = Nil
        /\ head = 0 /\ tail = 0 /\ count = 0

(***************************************************************************)
(* resize                                                                  *)
(***************************************************************************)
\* resize() applied to q, whose elements in queue order are content.
ResizeKeeps(q, content) ==
    LET r == resize(q)
    IN  /\ Len(r.buf) = 2 * q.count
        /\ r.head = 0 /\ r.tail = q.count /\ r.count = q.count
        /\ \A i \in 1..Len(r.buf) :
              r.buf[i] = IF i <= q.count THEN content[i] ELSE Nil
        /\ Live(r) = Live(q)

\* C19: resize preserves the logical content.  Wherever resize runs, in an
\* Add on a full buffer or in a Remove/Pop that leaves a quarter of a buffer
\* above the floor, wrapped or not, the new storage has length 2 x count,
\* holds the elements in order at 0..count-1 and nil elsewhere, head is 0,
\* tail is count and count is unchanged; and the queue after a step that
\* changed the capacity is of that form.
C19_Resize ==
    /\ count = Len(buf) => ResizeKeeps(Q, model)
    /\ (count >= 1 /\ Len(buf) > minQueueLen /\ (count - 1) * 4 = Len(buf)) =>
          ResizeKeeps(RemoveCount(RemoveAdvance(RemoveWipe(Q))), Tail(model))
    /\ (res.op = "Add" /\ head = 0 /\ count * 2 = Len(buf) + 2) =>
          \A i \in 1..Len(buf) :
              buf[i] = IF i <= count THEN model[i] ELSE Nil

C19_Witness ==
    /\ res.op = "Add" /\ res.arg = 18
    /\ added = 18 /\ removed = 1
    /\ Len(buf) = 32 /\ count = 17
    /\ head = 0 /\ tail = 17

(***************************************************************************)
(* Memory overhead                                                         *)
(***************************************************************************)
\* C21 as stated: after every operation the capacity is at least the floor,
\* and above the floor it is at most twice the number of queued elements.
C21_Original ==
    /\ Len(buf) >= minQueueLen
    /\ Len(buf) > minQueueLen => Len(buf) <= 2 * count

\* C21: the capacity is never below the floor.  A step that changes the
\* capacity leaves it at twice the number of elements (a shrink) or at twice
\* the number of elements before the added one (a growth).  Between resizes
\* the capacity above the floor stays below four times the number of
\* elements as long as Clear has not been called; Clear keeps the capacity
\* and leaves no element.
C21_Overhead ==
    [][/\ Len(buf) >= minQueueLen /\ Len(buf') >= minQueueLen
       /\ Len(buf') < Len(buf) => Len(buf') = 2 * count'
       /\ Len(buf') > Len(buf) => Len(buf') = 2 * (count' - 1)
       /\ (clears' = 0 /\ Len(buf') > minQueueLen) => Len(buf') < 4 * count'
       /\ ClearStep => Len(buf') = Len(buf) /\ count' = 0]_vars

C21_Witness ==
    /\ res.op = "Remove" /\ res.ok /\ res.ret = 8
    /\ added = 17 /\ removed = 8 /\ clears = 0
    /\ Len(buf) = 32 /\ count = 9

\* C22: Occupancy lower bound without Clear.  In every state reached by Add,
\* Remove and Pop a capacity above 16 is less than four times the count; a
\* removal never starts below the shrink point, so the equality test is not
\* stepped over; and an empty queue has capacity 16.
C22_Occupancy ==
    /\ Len(buf) > minQueueLen => 4 * count > Len(buf)
    /\ (Len(buf) > minQueueLen /\ count >= 1) => 4 * (count - 1) >= Len(buf)
    /\ count = 0 => Len(buf) = minQueueLen
    /\ (res.op \in {"Remove", "Pop"} /\ res.ok /\ removed = added) =>
          count = 0 /\ Len(buf) = minQueueLen

C22_Witness ==
    /\ res.op = "Remove" /\ res.ok /\ res.ret = 33
    /\ added = 33 /\ removed = 33
    /\ count = 0 /\ Len(buf) = 16 /\ head = 8 /\ tail = 8

====
